---- MODULE Spec2Model ----
(***************************************************************************)
(* Model of src/fitness/fitness.py: the loader load_and_explore_data, the  *)
(* entry point main and the five analysis functions, over a CSV file whose *)
(* cells are texts (sequences of one-character strings).                   *)
(*                                                                         *)
(* A DataFrame is a function from column names to columns; a column is a   *)
(* sequence of cells; a cell is one of                                     *)
(*   [t |-> "str", s |-> text]         a Python str (object dtype)         *)
(*   [t |-> "num", n |-> n, d |-> d]   the float n/d, in lowest terms      *)
(*   [t |-> "nan"]                     NaN                                 *)
(*   [t |-> "ts", month, hour]         a Timestamp                         *)
(*   [t |-> "nat"]                     NaT                                 *)
(*   [t |-> "cat", label |-> l]        a category of pd.cut                *)
(* The columns endDate, day_of_week and HKWeatherHumidity, which no        *)
(* modelled branch reads, and the drawing calls are left out.              *)
(***************************************************************************)
EXTENDS Integers, Sequences, FiniteSets, TLC

VARIABLES file, df, pc, last, ret, err, legend_labels, monthly_workouts, df_plot

vars == <<file, df, pc, last, ret, err, legend_labels, monthly_workouts, df_plot>>

\* Largest number of data rows of the CSV file.
MaxRows == 2

\* Seconds per minute: the divisor of lines 32 and 53.
SecondsPerMinute == 60

----------------------------------------------------------------------------
\* Texts

Digit == {"0", "1", "2", "3", "4", "5", "6", "7", "8", "9"}

DigitVal(c) ==
    CASE c = "0" -> 0 [] c = "1" -> 1 [] c = "2" -> 2 [] c = "3" -> 3
      [] c = "4" -> 4 [] c = "5" -> 5 [] c = "6" -> 6 [] c = "7" -> 7
      [] c = "8" -> 8 [] c = "9" -> 9

DigitChar(n) ==
    CASE n = 0 -> "0" [] n = 1 -> "1" [] n = 2 -> "2" [] n = 3 -> "3"
      [] n = 4 -> "4" [] n = 5 -> "5" [] n = 6 -> "6" [] n = 7 -> "7"
      [] n = 8 -> "8" [] n = 9 -> "9"

\* The literal unit suffixes of lines 185 and 106.
Kcal == <<" ", "k", "c", "a", "l">>
DegF == <<" ", "d", "e", "g", "F">>

RECURSIVE Strip(_)
\* str.strip() restricted to blanks, as float() applies it to its argument.
Strip(s) ==
    IF s = <<>> THEN s
    ELSE IF Head(s) = " " THEN Strip(Tail(s))
    ELSE IF s[Len(s)] = " " THEN Strip(SubSeq(s, 1, Len(s) - 1))
    ELSE s

RECURSIVE DigitsValue(_)
DigitsValue(s) ==
    IF s = <<>> THEN 0
    ELSE 10 * DigitsValue(SubSeq(s, 1, Len(s) - 1)) + DigitVal(s[Len(s)])

AllDigits(s) == s # <<>> /\ \A i \in 1..Len(s) : s[i] \in Digit

\* float(text) on unsigned decimal integers: ok = FALSE is ValueError.
ParseFloat(s) ==
    LET b == Strip(s) IN
    IF AllDigits(b) THEN [ok |-> TRUE, v |-> DigitsValue(b)]
    ELSE [ok |-> FALSE, v |-> 0]

StartsWith(s, pat) == Len(s) >= Len(pat) /\ SubSeq(s, 1, Len(pat)) = pat

RECURSIVE StrReplace(_, _)
\* str.replace(pat, ''): every non-overlapping occurrence of pat removed,
\* the text unchanged when pat does not occur.
StrReplace(s, pat) ==
    IF s = <<>> THEN s
    ELSE IF StartsWith(s, pat)
         THEN StrReplace(SubSeq(s, Len(pat) + 1, Len(s)), pat)
         ELSE <<Head(s)>> \o StrReplace(Tail(s), pat)

----------------------------------------------------------------------------
\* Cells

Str(s) == [t |-> "str", s |-> s]
NaN == [t |-> "nan"]
NaT == [t |-> "nat"]
Ts(mo, hh) == [t |-> "ts", month |-> mo, hour |-> hh]
Cat(l) == [t |-> "cat", label |-> l]

RECURSIVE GCD(_, _)
GCD(a, b) == IF b = 0 THEN a ELSE GCD(b, a % b)

\* The float n/d (d > 0), kept in lowest terms.
Frac(n, d) ==
    LET g == GCD(n, d) IN
    IF n = 0 THEN [t |-> "num", n |-> 0, d |-> 1]
    ELSE [t |-> "num", n |-> n \div g, d |-> d \div g]

Num(n) == Frac(n, 1)

IsNull(c) == c.t \in {"nan", "nat"}
IsStr(c) == c.t = "str"
IsNum(c) == c.t = "num"

\* dtype object: a column read_csv could not make numeric holds a str.
IsObject(col) == \E i \in 1..Len(col) : IsStr(col[i])

\* dtype datetime64: every cell is a Timestamp or NaT.
IsDatetime(col) == \A i \in 1..Len(col) : col[i].t \in {"ts", "nat"}

----------------------------------------------------------------------------
\* The pandas and numpy calls the program makes

\* Texts read_csv takes for a missing value (two of its default na_values).
IsNAText(s) == s = <<>> \/ s = <<"N", "a", "N">>

\* pd.read_csv, one column: float64 when every cell is missing or a number,
\* otherwise object, the missing cells NaN and the others left as str.
InferColumn(texts) ==
    IF \A i \in 1..Len(texts) : IsNAText(texts[i]) \/ ParseFloat(texts[i]).ok
    THEN [i \in 1..Len(texts) |->
            IF IsNAText(texts[i]) THEN NaN ELSE Num(ParseFloat(texts[i]).v)]
    ELSE [i \in 1..Len(texts) |->
            IF IsNAText(texts[i]) THEN NaN ELSE Str(texts[i])]

ReadCsv(table) == [c \in DOMAIN table |-> InferColumn(table[c])]

Pair(s, i) == 10 * DigitVal(s[i]) + DigitVal(s[i + 1])

DaysIn(mo) == IF mo = 2 THEN 29 ELSE IF mo \in {4, 6, 9, 11} THEN 30 ELSE 31

\* Timestamp parsing of the text "YYYY-MM-DD HH:MM:SS"; any other text, and any
\* field out of range (month 13, hour 24), does not parse.
ParseTimestamp(s) ==
    IF /\ Len(s) = 19
       /\ s[5] = "-" /\ s[8] = "-" /\ s[11] = " " /\ s[14] = ":" /\ s[17] = ":"
       /\ \A i \in {1, 2, 3, 4, 6, 7, 9, 10, 12, 13, 15, 16, 18, 19} : s[i] \in Digit
       /\ Pair(s, 6) \in 1..12
       /\ Pair(s, 9) \in 1..DaysIn(Pair(s, 6))
       /\ Pair(s, 12) \in 0..23
       /\ Pair(s, 15) \in 0..59
       /\ Pair(s, 18) \in 0..59
    THEN [ok |-> TRUE, month |-> Pair(s, 6), hour |-> Pair(s, 12)]
    ELSE [ok |-> FALSE, month |-> 0, hour |-> 0]

\* pd.to_datetime(col, errors='coerce'), one cell. A number is taken as
\* nanoseconds since 1970-01-01 00:00, so a small one is in hour 0 of January.
ToDatetimeCell(c) ==
    CASE c.t = "str" -> LET p == ParseTimestamp(c.s) IN
                        IF p.ok THEN Ts(p.month, p.hour) ELSE NaT
      [] c.t = "num" -> Ts(1, 0)
      [] c.t = "ts" -> c
      [] OTHER -> NaT

ToDatetime(col) == [i \in 1..Len(col) |-> ToDatetimeCell(col[i])]

\* Series.dt.hour and Series.dt.month: NaN at NaT.
DtHour(col) ==
    [i \in 1..Len(col) |-> IF col[i].t = "ts" THEN Num(col[i].hour) ELSE NaN]
DtMonth(col) ==
    [i \in 1..Len(col) |-> IF col[i].t = "ts" THEN Num(col[i].month) ELSE NaN]

\* pd.to_numeric(col, errors='coerce'), one cell.
ToNumericCell(c) ==
    CASE c.t = "num" -> c
      [] c.t = "str" -> IF ParseFloat(c.s).ok THEN Num(ParseFloat(c.s).v) ELSE NaN
      [] OTHER -> NaN

ToNumeric(col) == [i \in 1..Len(col) |-> ToNumericCell(col[i])]

\* col / k on a numeric column: NaN stays NaN.
DivCell(c, k) == IF IsNum(c) THEN Frac(c.n, c.d * k) ELSE NaN
DivColumn(col, k) == [i \in 1..Len(col) |-> DivCell(col[i], k)]

AddFrac(a, b) == Frac(a.n * b.d + b.n * a.d, a.d * b.d)

RECURSIVE SumNum(_, _)
\* Sum of the non-null cells among the first k of a numeric column.
SumNum(col, k) ==
    IF k = 0 THEN Num(0)
    ELSE IF IsNum(col[k]) THEN AddFrac(SumNum(col, k - 1), col[k])
    ELSE SumNum(col, k - 1)

CountNum(col) == Cardinality({i \in 1..Len(col) : IsNum(col[i])})

\* Series.mean() of a numeric column (skipna): NaN when nothing is left.
\* On an object column it raises TypeError; see MeanRaises.
Mean(col) ==
    IF CountNum(col) = 0 THEN NaN
    ELSE LET s == SumNum(col, Len(col)) IN Frac(s.n, s.d * CountNum(col))

MeanRaises(col) == IsObject(col)

\* Series.fillna(value): fillna(NaN) leaves the column as it was.
FillNa(col, value) ==
    [i \in 1..Len(col) |-> IF IsNull(col[i]) THEN value ELSE col[i]]

\* Series.str.replace(pat, '') on an object column: NaN stays NaN.
StrReplaceColumn(col, pat) ==
    [i \in 1..Len(col) |->
        IF IsStr(col[i]) THEN Str(StrReplace(col[i].s, pat)) ELSE col[i]]

\* Series.astype(float) raises ValueError when some str is no number.
AsFloatRaises(col) ==
    \E i \in 1..Len(col) : IsStr(col[i]) /\ ~ParseFloat(col[i].s).ok

AsFloat(col) ==
    [i \in 1..Len(col) |->
        IF IsStr(col[i]) THEN Num(ParseFloat(col[i].s).v) ELSE col[i]]

\* The bins and labels of pd.cut at line 145.
CutBins == <<0, 6, 12, 18, 24>>
CutLabels == <<"Night (0-6)", "Morning (6-12)", "Afternoon (12-18)", "Evening (18-24)">>

\* pd.cut(x, bins, labels) with its defaults right=True, include_lowest=False:
\* bin k is (bins[k], bins[k+1]], and a value in no bin, or NaN, gets NaN.
InBin(c, k) == CutBins[k] * c.d < c.n /\ c.n <= CutBins[k + 1] * c.d

CutCell(c) ==
    IF IsNum(c) /\ \E k \in 1..Len(CutLabels) : InBin(c, k)
    THEN Cat(CutLabels[CHOOSE k \in 1..Len(CutLabels) : InBin(c, k)])
    ELSE NaN

Cut(col) == [i \in 1..Len(col) |-> CutCell(col[i])]

\* The cross-tabulation without the fill: only the pairs that occur.
Crosstab_sparse(ka, kb) ==
    LET kept == {i \in 1..Len(ka) : ~IsNull(ka[i]) /\ ~IsNull(kb[i])}
        pairs == {<<ka[i], kb[i]>> : i \in kept}
    IN  [built |-> TRUE, index |-> {ka[i] : i \in kept}, columns |-> {kb[i] : i \in kept},
         count |-> [p \in pairs |->
                      Cardinality({i \in kept : ka[i] = p[1] /\ kb[i] = p[2]})]]

\* df.groupby([a, b]).size().unstack(fill_value=0): groupby leaves out the rows
\* with a null key (dropna=True); the index and the columns of the result are
\* the keys of the remaining rows.
Crosstab(ka, kb) ==
    LET kept == {i \in 1..Len(ka) : ~IsNull(ka[i]) /\ ~IsNull(kb[i])}
        idx == {ka[i] : i \in kept}
        cols == {kb[i] : i \in kept}
    IN  [built |-> TRUE, index |-> idx, columns |-> cols,
         count |-> [p \in idx \X cols |->
                      Cardinality({i \in kept : ka[i] = p[1] /\ kb[i] = p[2]})]]

RECURSIVE UniqueFrom(_, _, _)
\* Series.unique() over the rows listed in order: first occurrences, NaN kept.
UniqueFrom(col, order, seen) ==
    IF order = <<>> THEN <<>>
    ELSE LET v == col[Head(order)] IN
         IF v \in seen THEN UniqueFrom(col, Tail(order), seen)
         ELSE <<v>> \o UniqueFrom(col, Tail(order), seen \cup {v})

RECURSIVE Indices(_, _, _)
\* The rows of 1..n satisfying keep, in order.
Indices(keep, i, n) ==
    IF i > n THEN <<>>
    ELSE IF i \in keep THEN <<i>> \o Indices(keep, i + 1, n)
    ELSE Indices(keep, i + 1, n)

SetCol(d, c, col) == [k \in DOMAIN d \cup {c} |-> IF k = c THEN col ELSE d[k]]

NRows(d) == Len(d["activityType"])

----------------------------------------------------------------------------
\* The functions of fitness.py

NoDf == [c \in {} |-> <<>>]
NoCrosstab == [built |-> FALSE, index |-> {}, columns |-> {}, count |-> [p \in {} |-> 0]]

\* Lines 10-41 when nothing raises: the table load_and_explore_data builds.
Normalized(table) ==
    LET d0 == ReadCsv(table)
        startDate == ToDatetime(d0["startDate"])
        d1 == SetCol(d0, "startDate", startDate)
        d2 == SetCol(d1, "hour", DtHour(startDate))
        d3 == SetCol(d2, "month", DtMonth(startDate))
        duration == ToNumeric(d3["duration"])
        d4 == SetCol(d3, "duration", duration)
        d5 == SetCol(d4, "duration_minutes", DivColumn(duration, SecondsPerMinute))
        d6 == SetCol(d5, "totalDistance", FillNa(d5["totalDistance"], Num(0)))
        temperature == d6["HKWeatherTemperature"]
    IN  SetCol(d6, "HKWeatherTemperature", FillNa(temperature, Mean(temperature)))

\* The exception raised inside the try block of lines 8-43, "" when none: the
\* only call that can raise on a file of the fixed schema is the mean of line
\* 41, on a temperature column of dtype object.
LoadException(f) ==
    IF ~f.exists THEN "FileNotFoundError"
    ELSE IF MeanRaises(ReadCsv(f.table)["HKWeatherTemperature"]) THEN "TypeError"
    ELSE ""

\* load_and_explore_data whose generic handler returns the table as far as it
\* got instead of None.
load_and_explore_data_partial(f) ==
    IF ~f.exists
    THEN [ret |-> "None", err |-> "FileNotFoundError", df |-> NoDf]
    ELSE IF LoadException(f) # ""
    THEN [ret |-> "df", err |-> LoadException(f), df |-> ReadCsv(f.table)]
    ELSE [ret |-> "df", err |-> "", df |-> Normalized(f.table)]

\* load_and_explore_data(file_path): the table, or None from either handler.
load_and_explore_data(f) ==
    IF LoadException(f) # ""
    THEN [ret |-> "None", err |-> LoadException(f), df |-> NoDf]
    ELSE [ret |-> "df", err |-> "", df |-> Normalized(f.table)]

\* add_duration_minutes dividing the column it wrote before, when there is one.
add_duration_minutes_again(d) ==
    IF IsObject(d["duration"])
    THEN [err |-> "TypeError", df |-> d]
    ELSE [err |-> "",
          df |-> SetCol(d, "duration_minutes",
                        DivColumn(IF "duration_minutes" \in DOMAIN d
                                  THEN d["duration_minutes"] ELSE d["duration"],
                                  SecondsPerMinute))]

\* add_duration_minutes(df): the division raises TypeError on a str cell.
add_duration_minutes(d) ==
    IF IsObject(d["duration"])
    THEN [err |-> "TypeError", df |-> d]
    ELSE [err |-> "",
          df |-> SetCol(d, "duration_minutes",
                        DivColumn(d["duration"], SecondsPerMinute))]

\* analyze_calories_vs_duration(df): add_duration_minutes, then the plot.
analyze_calories_vs_duration(d) == add_duration_minutes(d)

\* The rows df_clean keeps (line 76).
CleanRows(d) ==
    {i \in 1..NRows(d) : ~IsNull(d["HKAverageMETs"][i])
                         /\ ~IsNull(d["totalEnergyBurned"][i])}

\* activity_data of line 86: NaN equals nothing, itself included.
ActivityRows(d, activity) ==
    {i \in CleanRows(d) : ~IsNull(activity) /\ d["activityType"][i] = activity}

\* np.polyfit raises TypeError on an empty x and on a y that holds a str.
PolyfitRaises(d, rows) ==
    rows = {} \/ \E i \in rows : IsStr(d["totalEnergyBurned"][i])

RECURSIVE FitLoop(_, _, _)
\* The loop of lines 85-92: one trend line per activity, in order, until a
\* polyfit raises. A line is recorded by the rows it was fitted on.
FitLoop(d, activities, lines) ==
    IF activities = <<>> THEN [err |-> "", lines |-> lines]
    ELSE LET rows == ActivityRows(d, Head(activities)) IN
         IF PolyfitRaises(d, rows) THEN [err |-> "TypeError", lines |-> lines]
         ELSE FitLoop(d, Tail(activities),
                      Append(lines, [activity |-> Head(activities), rows |-> rows]))

\* analyze_mets_impact(df)
analyze_mets_impact(d) ==
    LET d1 == SetCol(d, "HKAverageMETs", ToNumeric(d["HKAverageMETs"]))
        order == Indices(CleanRows(d1), 1, NRows(d1))
        fit == FitLoop(d1, UniqueFrom(d1["activityType"], order, {}), <<>>)
    IN  [err |-> fit.err, df |-> d1, lines |-> fit.lines]

\* analyze_weather_impact(df): works on a copy; .str raises AttributeError on
\* a column that is not of dtype object, astype(float) ValueError.
analyze_weather_impact(d) ==
    LET temperature == d["HKWeatherTemperature"]
        stripped == StrReplaceColumn(temperature, DegF)
    IN  IF ~IsObject(temperature) THEN [err |-> "AttributeError", df_plot |-> NoDf]
        ELSE IF AsFloatRaises(stripped) THEN [err |-> "ValueError", df_plot |-> NoDf]
        ELSE [err |-> "",
              df_plot |-> SetCol(d, "HKWeatherTemperature", AsFloat(stripped))]

\* analyze_time_of_day(df): pd.cut raises TypeError on a str.
analyze_time_of_day(d) ==
    LET d1 == IF "hour" \in DOMAIN d THEN d
              ELSE LET startDate == ToDatetime(d["startDate"]) IN
                   SetCol(SetCol(d, "startDate", startDate), "hour", DtHour(startDate))
    IN  IF IsObject(d1["hour"]) THEN [err |-> "TypeError", df |-> d1]
        ELSE [err |-> "", df |-> SetCol(d1, "time_category", Cut(d1["hour"]))]

\* analyze_workout_consistency(df): .dt raises AttributeError on a column
\* that is not datetime64, and the bar plot TypeError on an empty table.
analyze_workout_consistency(d) ==
    IF "month" \notin DOMAIN d /\ ~IsDatetime(d["startDate"])
    THEN [err |-> "AttributeError", df |-> d, monthly_workouts |-> NoCrosstab]
    ELSE LET d1 == IF "month" \in DOMAIN d THEN d
                   ELSE SetCol(d, "month", DtMonth(d["startDate"]))
             tab == Crosstab(d1["month"], d1["activityType"])
         IN  [err |-> IF tab.index = {} THEN "TypeError" ELSE "",
              df |-> d1, monthly_workouts |-> tab]

\* main_read turning a text without " kcal" into NaN instead of parsing it.
main_read_unsuffixed_null(f) ==
    IF ~f.exists THEN [err |-> "FileNotFoundError", df |-> NoDf]
    ELSE LET d0 == ReadCsv(f.table)
             energy == d0["totalEnergyBurned"]
             marked == [i \in 1..Len(energy) |->
                          IF IsStr(energy[i]) /\ StrReplace(energy[i].s, Kcal) = energy[i].s
                          THEN NaN ELSE energy[i]]
             stripped == StrReplaceColumn(marked, Kcal)
         IN  IF ~IsObject(energy) THEN [err |-> "AttributeError", df |-> d0]
             ELSE IF AsFloatRaises(stripped) THEN [err |-> "ValueError", df |-> d0]
             ELSE [err |-> "", df |-> SetCol(d0, "totalEnergyBurned", AsFloat(stripped))]

\* Lines 176-185 of main: read the file, strip " kcal", convert to float.
main_read(f) ==
    IF ~f.exists THEN [err |-> "FileNotFoundError", df |-> NoDf]
    ELSE LET d0 == ReadCsv(f.table)
             energy == d0["totalEnergyBurned"]
             stripped == StrReplaceColumn(energy, Kcal)
         IN  IF ~IsObject(energy) THEN [err |-> "AttributeError", df |-> d0]
             ELSE IF AsFloatRaises(stripped) THEN [err |-> "ValueError", df |-> d0]
             ELSE [err |-> "", df |-> SetCol(d0, "totalEnergyBurned", AsFloat(stripped))]

----------------------------------------------------------------------------
\* The input files

TwoDigits(n) == <<DigitChar(n \div 10), DigitChar(n % 10)>>

\* The text of a startDate in month mo at hour hh.
StampText(mo, hh) ==
    <<"2", "0", "2", "4", "-">> \o TwoDigits(mo) \o <<"-", "1", "5", " ">>
        \o TwoDigits(hh) \o <<":", "3", "0", ":", "0", "0">>

Garbage == <<"a", "b", "c">>
Empty == <<>>
T60 == <<"6", "0">>
T68 == <<"6", "8">>
T70 == <<"7", "0">>
T250 == <<"2", "5", "0">>
T300 == <<"3", "0", "0">>
T600 == <<"6", "0", "0">>
T1200 == <<"1", "2", "0", "0">>

\* The two ways a file writes its temperatures: with the unit, and bare.
TempStyles == {T60 \o DegF, T60}

\* A row with nothing missing and nothing malformed.
BaseRow(temp) ==
    [startDate |-> StampText(2, 7), duration |-> T600, totalDistance |-> <<"3">>,
     totalEnergyBurned |-> T250 \o Kcal, activityType |-> <<"R">>,
     HKAverageMETs |-> <<"5">>, HKWeatherTemperature |-> temp]

\* Rows that differ in the start time.
TimeRows(temp) ==
    {[BaseRow(temp) EXCEPT !.startDate = sd] :
        sd \in {StampText(1, 0), StampText(1, 6), StampText(2, 12), StampText(3, 18),
                StampText(3, 23), StampText(3, 24), Garbage, Empty}}

\* Rows that differ in the month and the activity type.
MonthRows(temp) ==
    {[BaseRow(temp) EXCEPT !.startDate = sd, !.activityType = a] :
        sd \in {StampText(1, 7), StampText(2, 7), Empty},
        a \in {<<"R">>, <<"W">>, Empty}}

\* Rows that differ in the activity type, the METs and the energy.
MetsRows(temp) ==
    {[BaseRow(temp) EXCEPT !.activityType = a, !.HKAverageMETs = me[1],
                           !.totalEnergyBurned = me[2]] :
        a \in {<<"R">>, <<"W">>, Empty},
        me \in {<<(<<"5">>), T250 \o Kcal>>, <<(<<"8">>), T300 \o Kcal>>,
                <<Garbage, T250 \o Kcal>>, <<(<<"5">>), Empty>>}}

\* Rows that differ in the temperature.
TemperatureRows ==
    {[BaseRow(Empty) EXCEPT !.HKWeatherTemperature = t] :
        t \in {T60 \o DegF, T68 \o DegF, T70 \o DegF, T60, T70, Garbage \o DegF, Empty}}

\* Rows that differ in the distance.
DistanceRows(temp) ==
    {[BaseRow(temp) EXCEPT !.totalDistance = x] : x \in {<<"0">>, <<"3">>, Empty}}

\* Rows that differ in the duration.
DurationRows(temp) ==
    {[BaseRow(temp) EXCEPT !.duration = x] :
        x \in {T600, T1200, <<"9", "0">>, <<"N", "a", "N">>, Garbage, Empty}}

\* Rows that differ in the energy.
EnergyRows(temp) ==
    {[BaseRow(temp) EXCEPT !.totalEnergyBurned = x] :
        x \in {T250 \o Kcal, T300 \o Kcal, T250, Garbage \o Kcal, Empty}}

\* Rows of a file that already has the derived columns, right or wrong.
DerivedRows(temp) ==
    {[startDate |-> StampText(2, 7), duration |-> T600, totalDistance |-> <<"3">>,
      totalEnergyBurned |-> T250 \o Kcal, activityType |-> <<"R">>,
      HKAverageMETs |-> <<"5">>, HKWeatherTemperature |-> temp,
      duration_minutes |-> dm, hour |-> hm[1], month |-> hm[2], time_category |-> tc] :
        dm \in {<<"1", "0">>, <<"5">>},
        hm \in {<<(<<"7">>), (<<"2">>)>>, <<(<<"9">>), (<<"3">>)>>},
        tc \in {<<"M">>, <<"N">>}}

Families ==
    {TemperatureRows}
        \cup UNION {{TimeRows(t), MonthRows(t), MetsRows(t), DistanceRows(t),
                     DurationRows(t), EnergyRows(t), DerivedRows(t)} : t \in TempStyles}

\* The table of a file with the given rows, by column.
Table(rows) ==
    [c \in DOMAIN rows[1] |-> [i \in 1..Len(rows) |-> rows[i][c]]]

\* Three-row files: durations 600, NaN, 1200; temperatures 60, missing, 70,
\* with the unit and bare; one valid METs row of one activity and two of
\* another.
Scenarios ==
    {<<[BaseRow(T60) EXCEPT !.duration = T600],
       [BaseRow(T60) EXCEPT !.duration = <<"N", "a", "N">>],
       [BaseRow(T60) EXCEPT !.duration = T1200]>>,
     <<BaseRow(T60 \o DegF), BaseRow(Empty), BaseRow(T70 \o DegF)>>,
     <<BaseRow(T60), BaseRow(Empty), BaseRow(T70)>>,
     <<[BaseRow(T60 \o DegF) EXCEPT !.activityType = <<"R">>],
       [BaseRow(T60 \o DegF) EXCEPT !.activityType = <<"W">>, !.HKAverageMETs = <<"8">>],
       [BaseRow(T60 \o DegF) EXCEPT !.activityType = <<"W">>]>>}

Files ==
    {[exists |-> FALSE, table |-> NoDf]}
        \cup {[exists |-> TRUE, table |-> Table(rows)] :
                rows \in Scenarios
                    \cup UNION {[1..n -> fam] : n \in 1..MaxRows, fam \in Families}}

----------------------------------------------------------------------------
\* The state machine

Init ==
    /\ file \in Files
    /\ df = NoDf
    /\ pc = "start"
    /\ last = ""
    /\ ret = "unset"
    /\ err = ""
    /\ legend_labels = <<>>
    /\ monthly_workouts = NoCrosstab
    /\ df_plot = NoDf

\* Where control goes after a call made at pc: a caller holding a loaded table
\* may call again; main goes to its next line; an exception ends the process.
After(e, next) == IF e # "" THEN "raised" ELSE IF pc = "loaded" THEN "loaded" ELSE next

\* A caller loads the file.
Load ==
    /\ pc = "start"
    /\ last' = "load_and_explore_data"
    /\ LET r == load_and_explore_data(file) IN
        /\ ret' = r.ret
        /\ err' = r.err
        /\ df' = r.df
        /\ pc' = IF r.ret = "None" THEN "load_failed" ELSE "loaded"
    /\ UNCHANGED <<file, legend_labels, monthly_workouts, df_plot>>

\* main, lines 176-196.
MainRead ==
    /\ pc = "start"
    /\ last' = "main"
    /\ LET r == main_read(file) IN
        /\ err' = r.err
        /\ df' = r.df
        /\ pc' = IF r.err # "" THEN "raised" ELSE "main_199"
    /\ UNCHANGED <<file, ret, legend_labels, monthly_workouts, df_plot>>

\* A caller holding a loaded table calls add_duration_minutes.
AddDurationMinutes ==
    /\ pc = "loaded"
    /\ last' = "add_duration_minutes"
    /\ LET r == add_duration_minutes(df) IN
        /\ err' = r.err
        /\ df' = r.df
        /\ pc' = After(r.err, "loaded")
    /\ UNCHANGED <<file, ret, legend_labels, monthly_workouts, df_plot>>

\* Line 199, or a caller's call.
AnalyzeCaloriesVsDuration ==
    /\ pc \in {"loaded", "main_199"}
    /\ last' = "analyze_calories_vs_duration"
    /\ LET r == analyze_calories_vs_duration(df) IN
        /\ err' = r.err
        /\ df' = r.df
        /\ pc' = After(r.err, "main_200")
    /\ UNCHANGED <<file, ret, legend_labels, monthly_workouts, df_plot>>

\* Line 200, or a caller's call.
AnalyzeMetsImpact ==
    /\ pc \in {"loaded", "main_200"}
    /\ last' = "analyze_mets_impact"
    /\ LET r == analyze_mets_impact(df) IN
        /\ err' = r.err
        /\ df' = r.df
        /\ legend_labels' = r.lines
        /\ pc' = After(r.err, "main_201")
    /\ UNCHANGED <<file, ret, monthly_workouts, df_plot>>

\* Line 201, or a caller's call.
AnalyzeWeatherImpact ==
    /\ pc \in {"loaded", "main_201"}
    /\ last' = "analyze_weather_impact"
    /\ LET r == analyze_weather_impact(df) IN
        /\ err' = r.err
        /\ df_plot' = r.df_plot
        /\ pc' = After(r.err, "main_202")
    /\ UNCHANGED <<file, df, ret, legend_labels, monthly_workouts>>

\* Line 202, or a caller's call.
AnalyzeTimeOfDay ==
    /\ pc \in {"loaded", "main_202"}
    /\ last' = "analyze_time_of_day"
    /\ LET r == analyze_time_of_day(df) IN
        /\ err' = r.err
        /\ df' = r.df
        /\ pc' = After(r.err, "main_203")
    /\ UNCHANGED <<file, ret, legend_labels, monthly_workouts, df_plot>>

\* Line 203, or a caller's call.
AnalyzeWorkoutConsistency ==
    /\ pc \in {"loaded", "main_203"}
    /\ last' = "analyze_workout_consistency"
    /\ LET r == analyze_workout_consistency(df) IN
        /\ err' = r.err
        /\ df' = r.df
        /\ monthly_workouts' = r.monthly_workouts
        /\ pc' = After(r.err, "main_done")
    /\ UNCHANGED <<file, ret, legend_labels, df_plot>>

Next ==
    \/ Load
    \/ MainRead
    \/ AddDurationMinutes
    \/ AnalyzeCaloriesVsDuration
    \/ AnalyzeMetsImpact
    \/ AnalyzeWeatherImpact
    \/ AnalyzeTimeOfDay
    \/ AnalyzeWorkoutConsistency

Spec == Init /\ [][Next]_vars

----------------------------------------------------------------------------
\* Vocabulary of the properties

EndsWith(s, pat) ==
    Len(s) >= Len(pat) /\ SubSeq(s, Len(s) - Len(pat) + 1, Len(s)) = pat

\* The text before a suffix of the given length.
Before(s, pat) == SubSeq(s, 1, Len(s) - Len(pat))

\* A number followed by the unit.
Suffixed(s, pat) == EndsWith(s, pat) /\ AllDigits(Before(s, pat))

RawRows == Len(file.table["activityType"])
RawText(c, i) == file.table[c][i]

\* The run is main's: main has read the file and no caller has loaded it.
MainRun == ret = "unset" /\ pc # "start"
MainPastRead == ret = "unset" /\ pc \in {"main_199", "main_200", "main_201", "main_202", "main_203", "main_done"}

----------------------------------------------------------------------------
\* C1

\* The bucket the half-open bins [0,6), [6,12), [12,18), [18,24] give.
HalfOpenCategory(h) ==
    IF ~IsNum(h) THEN NaN
    ELSE IF 0 <= h.n /\ h.n < 6 * h.d THEN Cat("Night (0-6)")
    ELSE IF 6 * h.d <= h.n /\ h.n < 12 * h.d THEN Cat("Morning (6-12)")
    ELSE IF 12 * h.d <= h.n /\ h.n < 18 * h.d THEN Cat("Afternoon (12-18)")
    ELSE IF 18 * h.d <= h.n /\ h.n <= 24 * h.d THEN Cat("Evening (18-24)")
    ELSE NaN

\* C1: after analyze_time_of_day every row's time_category is the half-open
\* bucket of its hour (0 Night, 6 Morning, 12 Afternoon, 18 and 23 Evening),
\* and a row with a null hour has no category.
C1_TimeCategoryHalfOpen ==
    (last = "analyze_time_of_day" /\ err = "")
        => \A i \in 1..NRows(df) :
              df["time_category"][i] = HalfOpenCategory(df["hour"][i])

----------------------------------------------------------------------------
\* C2

SuffixedTemperatures ==
    /\ file.exists
    /\ \A i \in 1..RawRows :
          RawText("HKWeatherTemperature", i) = Empty
              \/ Suffixed(RawText("HKWeatherTemperature", i), DegF)
    /\ \E i \in 1..RawRows : RawText("HKWeatherTemperature", i) # Empty

\* The temperatures with the unit stripped, as numbers.
StrippedTemperatures ==
    [i \in 1..RawRows |->
        IF RawText("HKWeatherTemperature", i) = Empty THEN NaN
        ELSE Num(DigitsValue(Before(RawText("HKWeatherTemperature", i), DegF)))]

\* C2: loading a file whose temperatures carry " degF" yields a table whose
\* temperatures are the stripped numbers, the missing ones replaced by the
\* mean of the others: "60 degF", missing, "70 degF" load as 60, 65, 70.
C2_SuffixedTemperatureImputed ==
    (last = "load_and_explore_data" /\ SuffixedTemperatures)
        => /\ ret = "df"
           /\ df["HKWeatherTemperature"]
                = FillNa(StrippedTemperatures, Mean(StrippedTemperatures))
           /\ (file.table["HKWeatherTemperature"] = <<T60 \o DegF, Empty, T70 \o DegF>>
                 => df["HKWeatherTemperature"] = <<Num(60), Num(65), Num(70)>>)

----------------------------------------------------------------------------
\* C3

\* C3: a table load_and_explore_data returns has no null totalDistance and no
\* null HKWeatherTemperature (also when every temperature is missing), and its
\* totalDistance is 0 in the rows whose raw value was missing.
C3_NoNullAfterImputation ==
    ret = "df"
        => \A i \in 1..NRows(df) :
              /\ ~IsNull(df["totalDistance"][i])
              /\ ~IsNull(df["HKWeatherTemperature"][i])
              /\ (IsNAText(RawText("totalDistance", i))
                    => df["totalDistance"][i] = Num(0))

----------------------------------------------------------------------------
\* C4

ScenarioDurations == <<T600, <<"N", "a", "N">>, T1200>>

\* C4: in a loaded table, after any calls of add_duration_minutes,
\* duration_minutes is duration / 60 where the raw duration is a number and
\* null elsewhere; durations "600", "NaN", "1200" give 10, null, 20.
C4_DurationMinutes ==
    ret = "df"
        => /\ \A i \in 1..NRows(df) :
                df["duration_minutes"][i]
                    = IF ParseFloat(RawText("duration", i)).ok
                      THEN Frac(ParseFloat(RawText("duration", i)).v, 60)
                      ELSE NaN
           /\ (file.table["duration"] = ScenarioDurations
                 => df["duration_minutes"] = <<Num(10), NaN, Num(20)>>)

\* Reached: the scenario file loaded and add_duration_minutes called on it.
C4_Witness ==
    /\ ret = "df"
    /\ last = "add_duration_minutes"
    /\ file.table["duration"] = ScenarioDurations
    /\ df["duration_minutes"] = <<Num(10), NaN, Num(20)>>

----------------------------------------------------------------------------
\* C5

\* A text that is present and does not parse as its field's type.
Unparseable(c, s) ==
    /\ ~IsNAText(s)
    /\ CASE c = "startDate" -> ~ParseTimestamp(s).ok
         [] c = "totalEnergyBurned" -> ~ParseFloat(StrReplace(s, Kcal)).ok
         [] c = "HKWeatherTemperature" -> ~ParseFloat(StrReplace(s, DegF)).ok
         [] OTHER -> ~ParseFloat(s).ok

WellFormed(c, s) ==
    CASE c = "startDate" -> ParseTimestamp(s).ok
      [] c = "totalEnergyBurned" -> Suffixed(s, Kcal)
      [] c = "HKWeatherTemperature" -> Suffixed(s, DegF)
      [] c = "activityType" -> s # Empty
      [] OTHER -> ParseFloat(s).ok

ParsedFields ==
    {"startDate", "duration", "totalEnergyBurned", "HKWeatherTemperature", "HKAverageMETs"}

\* A file whose only defects are unparseable texts in the parsed fields.
OnlyUnparseableFields ==
    /\ file.exists
    /\ \A c \in DOMAIN file.table : \A i \in 1..RawRows :
          \/ WellFormed(c, RawText(c, i))
          \/ c \in ParsedFields /\ Unparseable(c, RawText(c, i))

\* C5: an unparseable timestamp, duration or numeric field makes that cell
\* null and nothing else: main's run does not abort, keeps every row, and the
\* other rows keep their parsed energy.
C5_UnparseableFieldDegrades ==
    (MainRun /\ OnlyUnparseableFields)
        => /\ err = ""
           /\ NRows(df) = RawRows
           /\ \A i \in 1..RawRows :
                df["totalEnergyBurned"][i]
                    = IF Unparseable("totalEnergyBurned", RawText("totalEnergyBurned", i))
                      THEN NaN
                      ELSE Num(DigitsValue(Before(RawText("totalEnergyBurned", i), Kcal)))

----------------------------------------------------------------------------
\* C6

\* The number a raw text of a unit column writes, with or without the unit.
Written(s, unit) ==
    IF Suffixed(s, unit) THEN Num(DigitsValue(Before(s, unit))) ELSE Num(DigitsValue(s))

----------------------------------------------------------------------------
\* C7

\* The faults of a load: no file, or a temperature column that holds text.
LoadFault ==
    ~file.exists
        \/ \E i \in 1..RawRows :
              LET s == RawText("HKWeatherTemperature", i) IN
              ~IsNAText(s) /\ ~ParseFloat(s).ok

\* C7: a load that meets a missing file or any other error reports it and
\* returns None, never the table as far as it got, and no analysis runs; main
\* on a missing file stops before any analysis.
C7_LoadFailureYieldsNoTable ==
    /\ (ret # "unset" /\ LoadFault)
         => /\ ret = "None" /\ err # "" /\ df = NoDf
            /\ pc = "load_failed" /\ last = "load_and_explore_data"
    /\ (ret # "unset" /\ ~LoadFault) => (ret = "df" /\ DOMAIN df # {})
    /\ (MainRun /\ ~file.exists)
         => /\ pc = "raised" /\ err = "FileNotFoundError" /\ df = NoDf
            /\ last = "main"

\* Reached: a load of an existing file failed on the temperature column.
C7_Witness ==
    /\ pc = "load_failed"
    /\ file.exists
    /\ err = "TypeError"
    /\ ret = "None"

----------------------------------------------------------------------------
\* C8

NonNull(col) == {col[i] : i \in {j \in 1..Len(col) : ~IsNull(col[j])}}

PairCount(m, a) ==
    Cardinality({i \in 1..NRows(df) : df["month"][i] = m /\ df["activityType"][i] = a})

\* The keys of the rows that have both a month and an activity type.
KeyedRows == {i \in 1..NRows(df) : ~IsNull(df["month"][i]) /\ ~IsNull(df["activityType"][i])}

\* C8 as amended: the cross-tabulation has an entry for every pair of a month
\* and an activity type that each occur in some row having both keys, equal
\* to the number of rows with that pair, 0 when there is none.
C8_CrosstabZeroFilled ==
    monthly_workouts.built
        => \A m \in {df["month"][i] : i \in KeyedRows} :
           \A a \in {df["activityType"][i] : i \in KeyedRows} :
              /\ <<m, a>> \in DOMAIN monthly_workouts.count
              /\ monthly_workouts.count[<<m, a>>] = PairCount(m, a)

\* Reached: a table built without error that holds a zero-filled pair.
C8_Witness ==
    /\ monthly_workouts.built
    /\ last = "analyze_workout_consistency"
    /\ err = ""
    /\ \E p \in DOMAIN monthly_workouts.count : monthly_workouts.count[p] = 0

\* C8 as stated: an entry for every month of some row and every activity type
\* of some row.
C8_EveryObservedPair ==
    (monthly_workouts.built /\ monthly_workouts.index # {})
        => \A m \in NonNull(df["month"]) : \A a \in NonNull(df["activityType"]) :
              /\ <<m, a>> \in DOMAIN monthly_workouts.count
              /\ monthly_workouts.count[<<m, a>>] = PairCount(m, a)

----------------------------------------------------------------------------
\* C9

DerivedFeatures == {"duration_minutes", "hour", "month", "time_category"}

\* C9: no step changes a derived feature the table already has.
C9_DerivedFeaturesKept ==
    [][\A c \in DerivedFeatures \cap DOMAIN df :
          c \in DOMAIN df' /\ df'[c] = df[c]]_vars

----------------------------------------------------------------------------
\* C10

\* The rows of an activity type with both METs and energy.
ValidRows(a) ==
    {i \in 1..NRows(df) : /\ df["activityType"][i] = a
                          /\ ~IsNull(df["HKAverageMETs"][i])
                          /\ ~IsNull(df["totalEnergyBurned"][i])}

\* C10: when analyze_mets_impact returns in main's run it has fitted no
\* activity type with fewer than two valid rows, and every other type on its
\* own valid rows.
C10_FewPointsSkipped ==
    (MainRun /\ last = "analyze_mets_impact" /\ err = "")
        => /\ \A k \in 1..Len(legend_labels) :
                Cardinality(legend_labels[k].rows) >= 2
           /\ \A a \in NonNull(df["activityType"]) :
                Cardinality(ValidRows(a)) >= 2
                    => \E k \in 1..Len(legend_labels) :
                          /\ legend_labels[k].activity = a
                          /\ legend_labels[k].rows = ValidRows(a)

====
